---- MODULE Spec2Model ----
(***************************************************************************)
(* MapsService of teammapper (cached-map.model.ts, lines 52-312): the map  *)
(* and node persistence service.  The two repositories are the state; each *)
(* public method is one action, run to completion (requests are served one *)
(* after the other) in Spec, SpecSweep and SpecIso; in SpecConc updateMap,  *)
(* updateNode and removeNode are calls whose awaits interleave.            *)
(*                                                                         *)
(* Time is counted in whole days.  Identifiers are strings; the empty      *)
(* string stands for an empty, null or undefined identifier (all falsy).   *)
(***************************************************************************)
EXTENDS Integers, Sequences, FiniteSets, TLC

\* ------------------------------------------------------------------ bounds
\* Longest node sequence handed to addNodes / updateMap.
MaxBatch == 2
\* Last day the clock reaches.
MaxNow == 2

\* ------------------------------------------------------------------ inputs
Empty == ""

\* A string that is not a well-formed UUID.
Malformed == "not-a-uuid"

MapIds == {"m1", "m2"}

NodeIds == {"a", "b"}

OtherId(id) == IF id = "a" THEN "b" ELSE "a"

\* afterDays arguments of the sweep and of getDeletedAt.
AfterDays == {0, 1}

\* A caller-supplied node (MmpNode / IMmpClientNode): the fields the service reads.
Node(id, parent, root, detached, order) ==
    [id |-> id, nodeParentId |-> parent, root |-> root, detached |-> detached,
     orderNumber |-> order]

RootNode(id) == Node(id, Empty, TRUE, FALSE, 1)

ChildNode(id, parent) == Node(id, parent, FALSE, FALSE, 3)

DetachedNode(id) == Node(id, Empty, FALSE, TRUE, 2)

\* Detached and declaring a parent: the shape addNode refuses.
DetachedWithParent(id, parent) == Node(id, parent, FALSE, TRUE, 2)

NodeArgs ==
    UNION {{RootNode(i), ChildNode(i, OtherId(i)), DetachedNode(i),
            DetachedWithParent(i, OtherId(i))} : i \in NodeIds}

SeqsUpTo(S, n) == UNION {[1..k -> S] : k \in 0..n}

VARIABLES
    maps,       \* mapsRepository: set of [id, lastModified]
    nodes,      \* nodesRepository: set of stored node records
    generated,  \* map identifiers the storage has generated so far
    now,        \* the clock (new Date()), in days
    last,       \* the last request served and its outcome
    calls       \* the calls in flight, each between two of its awaits

vars == <<maps, nodes, generated, now, last, calls>>

\* ------------------------------------------------------------ repositories
NodesOf(store, mapId) == {r \in store : r.nodeMapId = mapId}

FindNode(store, mapId, id) == {r \in store : r.id = id /\ r.nodeMapId = mapId}

\* nodesRepository.create({...node, nodeMapId}) followed by save of a new row:
\* the row is tagged with the owning map; lastModified takes the column default.
CreateNode(node, mapId, today) ==
    [id |-> node.id, nodeMapId |-> mapId, nodeParentId |-> node.nodeParentId,
     root |-> node.root, detached |-> node.detached,
     orderNumber |-> node.orderNumber, lastModified |-> today]

\* nodesRepository.save: insert, or replace the row with the same (id, nodeMapId).
SaveNode(store, rec) ==
    (store \ FindNode(store, rec.nodeMapId, rec.id)) \cup {rec}

\* The owning-map reference of a node row is a foreign key into the maps with
\* ON DELETE CASCADE: a node row can be saved only under a stored map, and
\* deleting map rows deletes the node rows they own.
MapExists(mapRows, mapId) == \E m \in mapRows : m.id = mapId

\* No cascade: the node rows of a deleted map stay.
CascadeDelete_None(store, rows) == store

CascadeDelete(store, rows) == {r \in store : r.nodeMapId \notin {m.id : m \in rows}}

\* --------------------------------------------------------------- the outcome
Outcome(ok, store, ret, warned) ==
    [ok |-> ok, store |-> store, ret |-> ret, warned |-> warned]

Rejected(store) == Outcome(FALSE, store, <<>>, <<>>)

\* existsNode that looks the id up in every map and for every mapId.
existsNode_AnyMap(store, mapId, parentId) ==
    IF parentId = Empty
    THEN FALSE
    ELSE \E r \in store : r.id = parentId

\* existsNode (147-153)
existsNode(store, mapId, parentId) ==
    IF mapId = Empty \/ parentId = Empty
    THEN FALSE
    ELSE FindNode(store, mapId, parentId) # {}

\* validatesNodeParentForNode that takes a declared parent for a stored one.
validatesNodeParentForNode_NoLookup(store, mapId, node) ==
    node.root \/ node.detached \/ node.nodeParentId # Empty

\* validatesNodeParentForNode (302-311)
validatesNodeParentForNode(store, mapId, node) ==
    \/ node.root
    \/ node.detached
    \/ (node.nodeParentId # Empty /\ existsNode(store, mapId, node.nodeParentId))

\* addNode without the lookup of lines 93-96: every accepted call saves its node.
addNode_NoLookup(mapRows, store, mapId, arg, today) ==
    IF arg = <<>> \/ mapId = Empty
    THEN Rejected(store)
    ELSE IF arg[1].detached /\ arg[1].nodeParentId # Empty
    THEN Rejected(store)
    ELSE IF ~MapExists(mapRows, mapId)
    THEN Rejected(store)
    ELSE LET newNode == CreateNode(arg[1], mapId, today) IN
         Outcome(TRUE, SaveNode(store, newNode), <<newNode>>, <<>>)

\* addNode without the guard of line 90.
addNode_NoDetachedGuard(mapRows, store, mapId, arg, today) ==
    IF arg = <<>> \/ mapId = Empty
    THEN Rejected(store)
    ELSE LET existing == FindNode(store, mapId, arg[1].id) IN
         IF existing # {}
         THEN Outcome(TRUE, store, <<CHOOSE r \in existing : TRUE>>, <<>>)
         ELSE IF ~MapExists(mapRows, mapId)
         THEN Rejected(store)
         ELSE LET newNode == CreateNode(arg[1], mapId, today) IN
              Outcome(TRUE, SaveNode(store, newNode), <<newNode>>, <<>>)

\* addNode (88-104).  arg is <<>> for a missing node, <<node>> otherwise.
addNode(mapRows, store, mapId, arg, today) ==
    IF arg = <<>>
    THEN Rejected(store)          \* node.detached of a missing node throws
    ELSE LET node == arg[1] IN
         IF node.detached /\ node.nodeParentId # Empty
         THEN Rejected(store)
         ELSE IF mapId = Empty
         THEN Rejected(store)
         ELSE LET existing == FindNode(store, mapId, node.id) IN
              IF existing # {}
              THEN Outcome(TRUE, store, <<CHOOSE r \in existing : TRUE>>, <<>>)
              ELSE IF ~MapExists(mapRows, mapId)
              THEN Rejected(store)     \* save fails on the foreign key
              ELSE LET newNode == CreateNode(node, mapId, today) IN
                   Outcome(TRUE, SaveNode(store, newNode), <<newNode>>, <<>>)

\* addNodes (114-137): the reducer chain, one node after the other.  A rejection
\* of addNode rejects the reducer's promise, and every later reducer rethrows
\* it at "await previousPromise": the rest of the batch is not processed.
\* The guard of line 118 creates a rejected promise and drops it; it returns nothing.
RECURSIVE addNodesFrom(_, _, _, _, _, _, _)
addNodesFrom(mapRows, store, mapId, batch, acc, warned, today) ==
    IF batch = <<>>
    THEN Outcome(TRUE, store, acc, warned)
    ELSE LET node == Head(batch) IN
         IF validatesNodeParentForNode(store, mapId, node)
         THEN LET added == addNode(mapRows, store, mapId, <<node>>, today) IN
              IF added.ok
              THEN addNodesFrom(mapRows, added.store, mapId, Tail(batch),
                                acc \o added.ret, warned, today)
              ELSE Outcome(FALSE, store, <<>>, warned)
         ELSE addNodesFrom(mapRows, store, mapId, Tail(batch), acc,
                           Append(warned, node.id), today)

\* addNodes that validates every node against the store as it was before the
\* batch (the nodes validated at once, not one after the other).
RECURSIVE addNodesSnapshotFrom(_, _, _, _, _, _, _, _)
addNodesSnapshotFrom(before, mapRows, store, mapId, batch, acc, warned, today) ==
    IF batch = <<>>
    THEN Outcome(TRUE, store, acc, warned)
    ELSE LET node == Head(batch) IN
         IF validatesNodeParentForNode(before, mapId, node)
         THEN LET added == addNode(mapRows, store, mapId, <<node>>, today) IN
              IF added.ok
              THEN addNodesSnapshotFrom(before, mapRows, added.store, mapId,
                                        Tail(batch), acc \o added.ret, warned, today)
              ELSE Outcome(FALSE, store, <<>>, warned)
         ELSE addNodesSnapshotFrom(before, mapRows, store, mapId, Tail(batch), acc,
                                   Append(warned, node.id), today)

addNodes_Snapshot(mapRows, store, mapId, batch, today) ==
    addNodesSnapshotFrom(store, mapRows, store, mapId, batch, <<>>, <<>>, today)

addNodes(mapRows, store, mapId, batch, today) ==
    addNodesFrom(mapRows, store, mapId, batch, <<>>, <<>>, today)

\* mapClientNodeToMmpNode (utils/clientServerMapping): the client node as node
\* fields, owned by mapId.
mapClientNodeToMmpNode(clientNode, mapId) ==
    [id |-> clientNode.id, nodeMapId |-> mapId,
     nodeParentId |-> clientNode.nodeParentId, root |-> clientNode.root,
     detached |-> clientNode.detached, orderNumber |-> clientNode.orderNumber]

\* addNodesFromClient (106-112)
addNodesFromClient(mapRows, store, mapId, clientNodes, today) ==
    addNodes(mapRows, store, mapId,
             [i \in 1..Len(clientNodes) |->
                 LET m == mapClientNodeToMmpNode(clientNodes[i], mapId) IN
                 Node(m.id, m.nodeParentId, m.root, m.detached, m.orderNumber)],
             today)

\* updateNode that saves the merged record without the new lastModified.
updateNode_KeepStamp(store, mapId, clientNode, today) ==
    LET existing == FindNode(store, mapId, clientNode.id) IN
    IF existing = {}
    THEN Rejected(store)
    ELSE LET patch == mapClientNodeToMmpNode(clientNode, mapId)
             saved == [id |-> patch.id, nodeMapId |-> patch.nodeMapId,
                       nodeParentId |-> patch.nodeParentId, root |-> patch.root,
                       detached |-> patch.detached,
                       orderNumber |-> patch.orderNumber,
                       lastModified |-> (CHOOSE r \in existing : TRUE).lastModified]
         IN  Outcome(TRUE, SaveNode(store, saved), <<saved>>, <<>>)

\* updateNode (155-170)
updateNode(store, mapId, clientNode, today) ==
    LET existing == FindNode(store, mapId, clientNode.id) IN
    IF existing = {}
    THEN Rejected(store)
    ELSE LET patch == mapClientNodeToMmpNode(clientNode, mapId)
             saved == [id |-> patch.id, nodeMapId |-> patch.nodeMapId,
                       nodeParentId |-> patch.nodeParentId, root |-> patch.root,
                       detached |-> patch.detached,
                       orderNumber |-> patch.orderNumber, lastModified |-> today]
         IN  Outcome(TRUE, SaveNode(store, saved), <<saved>>, <<>>)

\* removeNode that returns the row it found and leaves it stored.
removeNode_KeepRow(store, clientNode, mapId) ==
    LET existing == FindNode(store, mapId, clientNode.id) IN
    IF existing = {}
    THEN Outcome(TRUE, store, <<>>, <<>>)
    ELSE Outcome(TRUE, store, <<CHOOSE r \in existing : TRUE>>, <<>>)

\* removeNode (172-186)
removeNode(store, clientNode, mapId) ==
    LET existing == FindNode(store, mapId, clientNode.id) IN
    IF existing = {}
    THEN Outcome(TRUE, store, <<>>, <<>>)
    ELSE Outcome(TRUE, store \ existing, <<CHOOSE r \in existing : TRUE>>, <<>>)

\* uuidValidate: the identifiers the storage generates are well-formed.
uuidValidate(uuid) == uuid \in MapIds

\* findMap (63-69): the rows found; rejected for a malformed uuid.
findMapOk(uuid) == uuidValidate(uuid)

findMap(mapRows, uuid) == {m \in mapRows : m.id = uuid}

MalformedUUIDError == "MalformedUUIDError"

\* findMap that asks the repository before it validates the uuid.
findMapCall_QueryFirst(mapRows, uuid) ==
    IF ~uuidValidate(uuid)
    THEN [ok |-> FALSE, err |-> MalformedUUIDError, rows |-> {}, queries |-> 1]
    ELSE [ok |-> TRUE, err |-> "", rows |-> findMap(mapRows, uuid), queries |-> 1]

\* findMap (63-69) as a call: the outcome, the error it rejects with, the rows
\* found and the number of repository queries it made.
findMapCall(mapRows, uuid) ==
    IF ~uuidValidate(uuid)
    THEN [ok |-> FALSE, err |-> MalformedUUIDError, rows |-> {}, queries |-> 0]
    ELSE [ok |-> TRUE, err |-> "", rows |-> findMap(mapRows, uuid), queries |-> 1]

\* updateMap without the delete of line 205.
updateMap_NoDelete(mapRows, store, uuid, data, today) ==
    LET added == addNodesFromClient(mapRows, store, uuid, data, today)
    IN  IF ~added.ok
        THEN Outcome(FALSE, added.store, <<>>, added.warned)
        ELSE Outcome(findMapOk(uuid), added.store, <<>>, added.warned)

\* updateMap whose delete of line 205 has no filter.
updateMap_ClearsAll(mapRows, store, uuid, data, today) ==
    LET added == addNodesFromClient(mapRows, {}, uuid, data, today)
    IN  IF ~added.ok
        THEN Outcome(FALSE, added.store, <<>>, added.warned)
        ELSE Outcome(findMapOk(uuid), added.store, <<>>, added.warned)

\* updateMap (202-210)
updateMap(mapRows, store, uuid, data, today) ==
    LET cleared == store \ NodesOf(store, uuid)
        added == addNodesFromClient(mapRows, cleared, uuid, data, today)
    IN  IF ~added.ok
        THEN Outcome(FALSE, added.store, <<>>, added.warned)
        ELSE Outcome(findMapOk(uuid), added.store, <<>>, added.warned)

\* findNodes (139-145): the map's nodes in ascending orderNumber; rows with the
\* same orderNumber come in any order.
IsSortedByOrder(s) == \A i, j \in 1..Len(s) : i < j => s[i].orderNumber <= s[j].orderNumber

findNodes(store, mapId) ==
    LET owned == NodesOf(store, mapId)
        n == Cardinality(owned)
    IN  {s \in [1..n -> owned] :
            /\ \A i, j \in 1..n : i # j => s[i] # s[j]
            /\ IsSortedByOrder(s)}

Max(S) == CHOOSE x \in S : \A y \in S : y <= x

\* calculcateDeletedAt (239-244)
calculcateDeletedAt(lastModified, afterDays) == lastModified + afterDays

\* getDeletedAt that always starts from the map's own lastModified.
getDeletedAt_MapStamp(store, map, afterDays) ==
    calculcateDeletedAt(map.lastModified, afterDays)

\* getDeletedAt (221-237): max(node.lastModified) is NULL for a map without nodes.
getDeletedAt(store, map, afterDays) ==
    LET stamps == {r.lastModified : r \in NodesOf(store, map.id)}
        lastModified == IF stamps = {} THEN map.lastModified ELSE Max(stamps)
    IN  calculcateDeletedAt(lastModified, afterDays)

\* The query without the join: every map is judged by its own lastModified.
outdatedMaps_MapStamp(mapRows, store, afterDays, today) ==
    {m \in mapRows : m.lastModified + afterDays < today}

\* The query with "<=" for "<".
outdatedMaps_Inclusive(mapRows, store, afterDays, today) ==
    {m \in mapRows :
        LET stamps == {r.lastModified : r \in NodesOf(store, m.id)} IN
        \/ (stamps # {} /\ Max(stamps) + afterDays <= today)
        \/ (stamps = {} /\ m.lastModified + afterDays <= today)}

\* The rows selected by the query of deleteOutdatedMaps (249-278).
outdatedMaps(mapRows, store, afterDays, today) ==
    {m \in mapRows :
        LET stamps == {r.lastModified : r \in NodesOf(store, m.id)} IN
        \/ (stamps # {} /\ Max(stamps) + afterDays < today)
        \/ (stamps = {} /\ m.lastModified + afterDays < today)}

\* ------------------------------------------------------------------ actions
\* last.again: the request is an addNode that follows a successful addNode for
\* the same map and the same node id.
\* last.err: the reason of a rejection; Promise.reject() gives none.
\* last.prev: the row updateNode found stored (159-161), <<>> otherwise.
\* last.num: the number the request reports or, for findMap and for a failed
\* exportMapToClient, the number of repository queries it made.
NoReason == "undefined"

NoLast ==
    [op |-> "none", mapId |-> Empty, arg |-> <<>>, days |-> 0, ok |-> TRUE,
     err |-> "", ret |-> <<>>, warned |-> <<>>, num |-> 0, again |-> FALSE,
     prev |-> <<>>]

Served(op, mapId, arg, out) ==
    [op |-> op, mapId |-> mapId, arg |-> arg, days |-> 0, ok |-> out.ok,
     err |-> IF out.ok THEN "" ELSE NoReason,
     ret |-> out.ret, warned |-> out.warned, num |-> 0, again |-> FALSE,
     prev |-> <<>>]

ServedNum(op, mapId, days, ok, ret, num) ==
    [op |-> op, mapId |-> mapId, arg |-> <<>>, days |-> days, ok |-> ok,
     err |-> IF ok THEN "" ELSE NoReason,
     ret |-> ret, warned |-> <<>>, num |-> num, again |-> FALSE,
     prev |-> <<>>]

\* The calls of the concurrent specification: two updateMap calls, an
\* updateNode and a removeNode, all for one map.  A call is suspended at an
\* await on a repository call; pc names the repository call it waits for.
\*   data   the nodes the call was given
\*   i      the node of data the reducer of addNodes is at
\*   found  the row findOne / findOneBy returned to updateNode / removeNode
\*   old    the rows the delete of updateMap removed
CallIds == {"u1", "u2", "n", "r"}

UpdateMapCalls == {"u1", "u2"}

ConcMap == "m1"

Idle == [pc |-> "idle", data |-> <<>>, i |-> 0, found |-> <<>>, old |-> {}]

Init ==
    /\ maps = {}
    /\ nodes = {}
    /\ generated = {}
    /\ now = 0
    /\ last = NoLast
    /\ calls = [c \in CallIds |-> Idle]

\* new Date() moves on.
Tick ==
    /\ now < MaxNow
    /\ now' = now + 1
    /\ UNCHANGED <<calls, maps, nodes, generated, last>>

\* createEmptyMap (188-200); root is <<>> or <<the id of the root node>>.
CreateEmptyMap(uuid, root) ==
    /\ uuid \in MapIds \ generated
    /\ generated' = generated \cup {uuid}
    /\ maps' = maps \cup {[id |-> uuid, lastModified |-> now]}
    /\ nodes' = IF root = <<>>
                THEN nodes
                ELSE SaveNode(nodes, CreateNode(RootNode(root[1]), uuid, now))
    /\ last' = ServedNum("createEmptyMap", uuid, 0, TRUE, <<>>, 0)
    /\ UNCHANGED <<calls, now>>

AddNode(mapId, arg) ==
    LET out == addNode(maps, nodes, mapId, arg, now) IN
    /\ nodes' = out.store
    /\ last' = [Served("addNode", mapId, arg, out) EXCEPT
                    !.again = /\ last.op = "addNode" /\ last.ok
                              /\ last.mapId = mapId
                              /\ arg # <<>>
                              /\ last.arg[1].id = arg[1].id]
    /\ UNCHANGED <<calls, maps, generated, now>>

AddNodes(mapId, batch) ==
    LET out == addNodes(maps, nodes, mapId, batch, now) IN
    /\ nodes' = out.store
    /\ last' = Served("addNodes", mapId, batch, out)
    /\ UNCHANGED <<calls, maps, generated, now>>

UpdateNode(mapId, clientNode) ==
    LET out == updateNode(nodes, mapId, clientNode, now) IN
    /\ nodes' = out.store
    /\ last' = [Served("updateNode", mapId, <<clientNode>>, out) EXCEPT
                    !.prev = LET existing == FindNode(nodes, mapId, clientNode.id)
                             IN  IF existing = {} THEN <<>>
                                 ELSE <<CHOOSE r \in existing : TRUE>>]
    /\ UNCHANGED <<calls, maps, generated, now>>

RemoveNode(clientNode, mapId) ==
    LET out == removeNode(nodes, clientNode, mapId) IN
    /\ nodes' = out.store
    /\ last' = Served("removeNode", mapId, <<clientNode>>, out)
    /\ UNCHANGED <<calls, maps, generated, now>>

UpdateMap(uuid, data) ==
    LET out == updateMap(maps, nodes, uuid, data, now) IN
    /\ nodes' = out.store
    /\ last' = [Served("updateMap", uuid, data, out) EXCEPT
                    !.num = Cardinality(NodesOf(nodes, uuid))]
    /\ UNCHANGED <<calls, maps, generated, now>>

\* deleteMap (298-300)
DeleteMap(uuid) ==
    LET rows == findMap(maps, uuid) IN
    /\ maps' = maps \ rows
    /\ nodes' = CascadeDelete(nodes, rows)
    /\ last' = ServedNum("deleteMap", uuid, 0, TRUE, <<>>,
                         Cardinality(nodes \ CascadeDelete(nodes, rows)))
    /\ UNCHANGED <<calls, generated, now>>

\* deleteOutdatedMaps (246-296)
DeleteOutdatedMaps(afterDays) ==
    LET rows == outdatedMaps(maps, nodes, afterDays, now) IN
    /\ maps' = maps \ rows
    /\ nodes' = CascadeDelete(nodes, rows)
    /\ last' = ServedNum("deleteOutdatedMaps", Empty, afterDays, TRUE, <<>>,
                         Cardinality(rows))
    /\ UNCHANGED <<calls, generated, now>>

\* getDeletedAt (221-237); map is <<>> for a missing map, <<row>> otherwise.
GetDeletedAt(map, afterDays) ==
    /\ last' = IF map = <<>>
               THEN ServedNum("getDeletedAt", Empty, afterDays, FALSE, <<>>, 0)
               ELSE ServedNum("getDeletedAt", map[1].id, afterDays, TRUE, <<>>,
                              getDeletedAt(nodes, map[1], afterDays))
    /\ UNCHANGED <<calls, maps, nodes, generated, now>>

\* findMap (63-69) as a request.
FindMap(uuid) ==
    LET call == findMapCall(maps, uuid) IN
    /\ last' = [ServedNum("findMap", uuid, 0, call.ok, <<>>, call.queries) EXCEPT
                    !.err = call.err,
                    !.ret = IF call.rows = {} THEN <<>>
                            ELSE <<CHOOSE m \in call.rows : TRUE>>]
    /\ UNCHANGED <<calls, maps, nodes, generated, now>>

\* findNodes (139-145) as a request.
FindNodes(mapId) ==
    /\ \E found \in findNodes(nodes, mapId) :
          last' = ServedNum("findNodes", mapId, 0, TRUE, found, 0)
    /\ UNCHANGED <<calls, maps, nodes, generated, now>>

\* exportMapToClient (71-86); days is configService.deleteAfterDays().  The
\* rejection of findMap is passed on (72-74); a map that is not found rejects
\* without a reason (76).
ExportMapToClient(uuid, days) ==
    LET call == findMapCall(maps, uuid) IN
    /\ \/ /\ ~call.ok
          /\ last' = [ServedNum("exportMapToClient", uuid, days, FALSE, <<>>,
                                call.queries) EXCEPT !.err = call.err]
       \/ /\ call.ok /\ call.rows = {}
          /\ last' = ServedNum("exportMapToClient", uuid, days, FALSE, <<>>,
                               call.queries)
       \/ /\ call.ok
          /\ \E map \in call.rows, found \in findNodes(nodes, uuid) :
                last' = ServedNum("exportMapToClient", uuid, days, TRUE, found,
                                  getDeletedAt(nodes, map, days))
    /\ UNCHANGED <<calls, maps, nodes, generated, now>>

\* The requests of Spec: one map, every node shape, batches.
TreeMaps == {"m1"}

BatchNodes ==
    {RootNode("a"), ChildNode("b", "a"), DetachedNode("a"), DetachedWithParent("b", "a")}

Batches == SeqsUpTo(BatchNodes, MaxBatch)

Next ==
    \/ \E uuid \in TreeMaps, root \in {<<>>} \cup {<<i>> : i \in NodeIds} :
           CreateEmptyMap(uuid, root)
    \/ \E mapId \in TreeMaps \cup {Empty}, arg \in {<<>>} \cup {<<n>> : n \in NodeArgs} :
           AddNode(mapId, arg)
    \/ \E mapId \in TreeMaps \cup {Empty}, batch \in Batches : AddNodes(mapId, batch)
    \/ \E mapId \in TreeMaps, n \in NodeArgs : UpdateNode(mapId, n)
    \/ \E mapId \in TreeMaps, n \in NodeArgs : RemoveNode(n, mapId)
    \/ \E uuid \in TreeMaps, data \in Batches : UpdateMap(uuid, data)
    \/ \E uuid \in TreeMaps : DeleteMap(uuid)

Spec == Init /\ [][Next]_vars

\* The requests of SpecSweep: two maps, the clock, the sweep and the deadline.
SweepNodes ==
    {<<"m1", RootNode("a")>>, <<"m1", ChildNode("b", "a")>>, <<"m2", RootNode("a")>>}

\* The patches of updateNode: the nodes above, and one that changes a stored
\* node's fields.
PatchNodes == SweepNodes \cup {<<"m1", DetachedNode("b")>>}

NextSweep ==
    \/ Tick
    \/ \E uuid \in MapIds, root \in {<<>>, <<"a">>} : CreateEmptyMap(uuid, root)
    \/ \E t \in SweepNodes : AddNode(t[1], <<t[2]>>)
    \/ \E t \in SweepNodes : AddNodes(t[1], <<t[2]>>)
    \/ \E t \in PatchNodes : UpdateNode(t[1], t[2])
    \/ \E uuid \in MapIds : DeleteMap(uuid)
    \/ \E afterDays \in AfterDays : DeleteOutdatedMaps(afterDays)
    \/ \E map \in {<<>>} \cup {<<m>> : m \in maps}, afterDays \in AfterDays :
           GetDeletedAt(map, afterDays)
    \/ \E uuid \in MapIds \cup {Empty, Malformed} : FindMap(uuid)
    \/ \E uuid \in MapIds \cup {Empty, Malformed}, days \in AfterDays :
           ExportMapToClient(uuid, days)

SpecSweep == Init /\ [][NextSweep]_vars

\* ------------------------------------------------- calls whose awaits interleave
\* Every repository call is one step; the code between two awaits of a call
\* runs without interruption (one thread).  The steps of updateMap follow
\* lines 205, 207 (addNodesFromClient, the reducer of addNodes, per node
\* validatesNodeParentForNode and addNode) and 209.

\* Where the reducer (120-133) stops next, from node i on: at the existsNode
\* query of a node that is neither root nor detached and names a parent, at
\* the findOne of addNode for a root or detached node; a node without parent
\* reference is skipped with a warning, a detached node with a parent rejects
\* the chain (line 90), and after the last node the map is reloaded (209).
RECURSIVE ReducerAt(_, _)
ReducerAt(data, i) ==
    IF i > Len(data)
    THEN [pc |-> "done", i |-> i]
    ELSE LET node == data[i] IN
         IF node.root \/ node.detached
         THEN IF node.detached /\ node.nodeParentId # Empty
              THEN [pc |-> "failed", i |-> i]
              ELSE [pc |-> "lookup", i |-> i]
         ELSE IF node.nodeParentId # Empty
         THEN [pc |-> "validate", i |-> i]
         ELSE ReducerAt(data, i + 1)

Moved(call, at) == [call EXCEPT !.pc = at.pc, !.i = at.i]

\* clientNodes.map(x => mapClientNodeToMmpNode(x, mapId)) (line 110)
MmpNodesOf(clientNodes, mapId) ==
    [k \in 1..Len(clientNodes) |->
        LET m == mapClientNodeToMmpNode(clientNodes[k], mapId) IN
        Node(m.id, m.nodeParentId, m.root, m.detached, m.orderNumber)]

\* The delete of updateMap that leaves the rows of the map stored.
UpdateMapDelete_Skip(c, data) ==
    /\ calls[c].pc = "idle"
    /\ nodes' = nodes
    /\ calls' = [calls EXCEPT ![c] =
                    Moved([Idle EXCEPT !.data = MmpNodesOf(data, ConcMap),
                                       !.old = NodesOf(nodes, ConcMap)],
                          ReducerAt(MmpNodesOf(data, ConcMap), 1))]
    /\ UNCHANGED <<maps, generated, now, last>>

\* The delete of updateMap that removes the children and keeps the roots.
UpdateMapDelete_KeepRoots(c, data) ==
    /\ calls[c].pc = "idle"
    /\ nodes' = nodes \ {r \in NodesOf(nodes, ConcMap) : ~r.root}
    /\ calls' = [calls EXCEPT ![c] =
                    Moved([Idle EXCEPT !.data = MmpNodesOf(data, ConcMap),
                                       !.old = NodesOf(nodes, ConcMap)],
                          ReducerAt(MmpNodesOf(data, ConcMap), 1))]
    /\ UNCHANGED <<maps, generated, now, last>>

\* updateMap is called: nodesRepository.delete({nodeMapId}) (205).
UpdateMapDelete(c, data) ==
    /\ calls[c].pc = "idle"
    /\ nodes' = nodes \ NodesOf(nodes, ConcMap)
    /\ calls' = [calls EXCEPT ![c] =
                    Moved([Idle EXCEPT !.data = MmpNodesOf(data, ConcMap),
                                       !.old = NodesOf(nodes, ConcMap)],
                          ReducerAt(MmpNodesOf(data, ConcMap), 1))]
    /\ UNCHANGED <<maps, generated, now, last>>

\* existsNode for the parent of node i (125, 309, 150).
UpdateMapValidate(c) ==
    LET call == calls[c] IN
    /\ call.pc = "validate"
    /\ calls' = [calls EXCEPT ![c] =
                    IF existsNode(nodes, ConcMap, call.data[call.i].nodeParentId)
                    THEN [call EXCEPT !.pc = "lookup"]
                    ELSE Moved(call, ReducerAt(call.data, call.i + 1))]
    /\ UNCHANGED <<maps, nodes, generated, now, last>>

\* findOne of addNode for node i (93-96).
UpdateMapLookup(c) ==
    LET call == calls[c] IN
    /\ call.pc = "lookup"
    /\ calls' = [calls EXCEPT ![c] =
                    IF FindNode(nodes, ConcMap, call.data[call.i].id) # {}
                    THEN Moved(call, ReducerAt(call.data, call.i + 1))
                    ELSE [call EXCEPT !.pc = "save"]]
    /\ UNCHANGED <<maps, nodes, generated, now, last>>

\* save of addNode for node i (98-103).
UpdateMapSave(c) ==
    LET call == calls[c] IN
    /\ call.pc = "save"
    /\ IF MapExists(maps, ConcMap)
       THEN /\ nodes' = SaveNode(nodes, CreateNode(call.data[call.i], ConcMap, now))
            /\ calls' = [calls EXCEPT ![c] =
                            Moved(call, ReducerAt(call.data, call.i + 1))]
       ELSE /\ nodes' = nodes
            /\ calls' = [calls EXCEPT ![c] = [call EXCEPT !.pc = "failed"]]
    /\ UNCHANGED <<maps, generated, now, last>>

\* updateNode is called: findOne (159-163).
UpdateNodeFind(clientNode) ==
    LET existing == FindNode(nodes, ConcMap, clientNode.id) IN
    /\ calls["n"].pc = "idle"
    /\ calls' = [calls EXCEPT !["n"] =
                    IF existing = {}
                    THEN [Idle EXCEPT !.pc = "failed", !.data = <<clientNode>>]
                    ELSE [Idle EXCEPT !.pc = "save", !.data = <<clientNode>>,
                                      !.found = <<CHOOSE r \in existing : TRUE>>]]
    /\ UNCHANGED <<maps, nodes, generated, now, last>>

\* save of updateNode (165-169): the row found, the patch and the time of the
\* save, written whether or not the row is still stored.
UpdateNodeSave ==
    LET call == calls["n"]
        merged == updateNode({call.found[1]}, ConcMap, call.data[1], now).ret[1]
    IN  /\ call.pc = "save"
        /\ IF MapExists(maps, ConcMap)
           THEN /\ nodes' = SaveNode(nodes, merged)
                /\ calls' = [calls EXCEPT !["n"] = [call EXCEPT !.pc = "done"]]
           ELSE /\ nodes' = nodes
                /\ calls' = [calls EXCEPT !["n"] = [call EXCEPT !.pc = "failed"]]
        /\ UNCHANGED <<maps, generated, now, last>>

\* removeNode is called: findOneBy (176-183).
RemoveNodeFind(clientNode) ==
    LET existing == FindNode(nodes, ConcMap, clientNode.id) IN
    /\ calls["r"].pc = "idle"
    /\ calls' = [calls EXCEPT !["r"] =
                    IF existing = {}
                    THEN [Idle EXCEPT !.pc = "done", !.data = <<clientNode>>]
                    ELSE [Idle EXCEPT !.pc = "remove", !.data = <<clientNode>>,
                                      !.found = <<CHOOSE r \in existing : TRUE>>]]
    /\ UNCHANGED <<maps, nodes, generated, now, last>>

\* remove of removeNode (185): deletes the row with the key of the row found.
RemoveNodeRemove ==
    LET call == calls["r"] IN
    /\ call.pc = "remove"
    /\ nodes' = removeNode(nodes, call.found[1], ConcMap).store
    /\ calls' = [calls EXCEPT !["r"] = [call EXCEPT !.pc = "done"]]
    /\ UNCHANGED <<maps, generated, now, last>>

\* The calls of SpecConc.
ConcData == {<<RootNode("a"), ChildNode("b", "a")>>, <<RootNode("b")>>}

ConcPatches == {DetachedNode("b"), RootNode("a")}

\* The callers name a map the storage has generated.
KnownMaps == {ConcMap} \cap generated

NextConc ==
    \/ \E root \in {<<>>, <<"a">>, <<"b">>} : CreateEmptyMap(ConcMap, root)
    \/ \E m \in KnownMaps, c \in UpdateMapCalls, data \in ConcData :
           UpdateMapDelete(c, data)
    \/ \E c \in UpdateMapCalls : UpdateMapValidate(c)
    \/ \E c \in UpdateMapCalls : UpdateMapLookup(c)
    \/ \E c \in UpdateMapCalls : UpdateMapSave(c)
    \/ \E m \in KnownMaps, n \in ConcPatches : UpdateNodeFind(n)
    \/ UpdateNodeSave
    \/ \E m \in KnownMaps, n \in ConcPatches : RemoveNodeFind(n)
    \/ RemoveNodeRemove
    \/ \E m \in KnownMaps : FindNodes(m)

SpecConc == Init /\ [][NextConc]_vars

\* The requests of SpecIso: two maps, the same node ids under both.
IsoNodes == {RootNode("a"), ChildNode("b", "a"), DetachedNode("b")}

IsoBatches == SeqsUpTo(IsoNodes, MaxBatch)

NextIso ==
    \/ \E uuid \in MapIds, root \in {<<>>, <<"a">>} : CreateEmptyMap(uuid, root)
    \/ \E mapId \in MapIds, n \in IsoNodes : AddNode(mapId, <<n>>)
    \/ \E mapId \in MapIds, batch \in IsoBatches : AddNodes(mapId, batch)
    \/ \E mapId \in MapIds, n \in IsoNodes : UpdateNode(mapId, n)
    \/ \E mapId \in MapIds, n \in IsoNodes : RemoveNode(n, mapId)
    \/ \E uuid \in MapIds, data \in IsoBatches : UpdateMap(uuid, data)
    \/ \E mapId \in MapIds : FindNodes(mapId)

SpecIso == Init /\ [][NextIso]_vars

\* ================================================================== claims
\* The caller-visible fields of a stored row.
Fields(r) == Node(r.id, r.nodeParentId, r.root, r.detached, r.orderNumber)

IsDetachedWithParent(n) == n.detached /\ n.nodeParentId # Empty

\* A step that serves addNode(M, n') right after a successful addNode(M, n) with
\* n'.id = n.id.
SecondAddNode == last'.op = "addNode" /\ last'.again

SecondAddNodeReturnsFirst ==
    /\ last'.ok
    /\ last'.ret = last.ret
    /\ nodes' = nodes
    /\ FindNode(nodes', last.mapId, last.arg[1].id) = {last.ret[1]}

\* C1 as stated: after addNode(M, n), addNode(M, n') with n'.id = n.id returns
\* the record of the first call, whatever n' is, and the store keeps exactly
\* that one record for the id.
C1_AnySecondNode == [][SecondAddNode => SecondAddNodeReturnsFirst]_vars

\* C1 amended: the same, for every n' that is not detached with a parent
\* reference; such an n' is rejected and the store, with the one record of the
\* first call, stays as it is.
C1_Idempotent ==
    [][SecondAddNode =>
         IF IsDetachedWithParent(last'.arg[1])
         THEN /\ ~last'.ok
              /\ nodes' = nodes
              /\ FindNode(nodes', last.mapId, last.arg[1].id) = {last.ret[1]}
         ELSE SecondAddNodeReturnsFirst]_vars

\* The second of two addNode calls for one id has answered with the stored
\* record, whose fields are not those of the node it was called with.
C1_Witness ==
    /\ last.op = "addNode" /\ last.again /\ last.ok
    /\ Fields(last.ret[1]) # last.arg[1]
    /\ FindNode(nodes, last.mapId, last.arg[1].id) = {last.ret[1]}

\* C2: addNode rejects a node that is detached and carries a parent reference,
\* a missing node and a missing mapId, and leaves the node store as it was.
C2_Rejects ==
    [][(/\ last'.op = "addNode"
        /\ \/ last'.arg = <<>>
           \/ last'.mapId = Empty
           \/ IsDetachedWithParent(last'.arg[1]))
       => (~last'.ok /\ last'.ret = <<>> /\ nodes' = nodes)]_vars

\* A detached node with a parent reference was refused under a stored map that
\* holds the declared parent.
C2_Witness ==
    /\ last.op = "addNode" /\ ~last.ok
    /\ last.arg # <<>> /\ IsDetachedWithParent(last.arg[1])
    /\ MapExists(maps, last.mapId)
    /\ FindNode(nodes, last.mapId, last.arg[1].nodeParentId) # {}
    /\ FindNode(nodes, last.mapId, last.arg[1].id) = {}

\* ------------------------------------------------- the batch, as the claims
\* state it.  Ids stored under the map once the first k nodes of the batch have
\* been processed, from the ids stored before: a node is admitted when it is
\* root or detached or its parent id is among the ids present at its turn.
Admitted(n, present) == n.root \/ n.detached \/ n.nodeParentId \in present

RECURSIVE PresentAfter(_, _, _)
PresentAfter(ids, batch, k) ==
    IF k = 0
    THEN ids
    ELSE LET present == PresentAfter(ids, batch, k - 1) IN
         IF Admitted(batch[k], present) THEN present \cup {batch[k].id} ELSE present

\* The nodes of the batch that are processed to the end: those before the first
\* node that is detached with a parent reference (addNode rejects that one).
Halt(batch) ==
    IF \E i \in 1..Len(batch) : IsDetachedWithParent(batch[i])
    THEN (CHOOSE i \in 1..Len(batch) :
             /\ IsDetachedWithParent(batch[i])
             /\ \A j \in 1..(i - 1) : ~IsDetachedWithParent(batch[j])) - 1
    ELSE Len(batch)

IdsOf(store, mapId) == {r.id : r \in NodesOf(store, mapId)}

RECURSIVE DroppedIds(_, _, _)
DroppedIds(ids, batch, k) ==
    IF k = 0
    THEN <<>>
    ELSE LET before == DroppedIds(ids, batch, k - 1) IN
         IF Admitted(batch[k], PresentAfter(ids, batch, k - 1))
         THEN before
         ELSE Append(before, batch[k].id)

\* The rows the batch creates: one for every admitted node whose id is not
\* present at its turn.
CreatedRows(ids, batch, k, mapId, today) ==
    {CreateNode(batch[i], mapId, today) :
        i \in {j \in 1..k : /\ Admitted(batch[j], PresentAfter(ids, batch, j - 1))
                             /\ batch[j].id \notin PresentAfter(ids, batch, j - 1)}}

PassingRows(data, mapId, today) ==
    {CreateNode(data[k], mapId, today) :
        k \in {i \in 1..Len(data) : Admitted(data[i], PresentAfter({}, data, i - 1))}}

\* Those of them whose id no earlier admitted node of the submission carries.
FirstPassingRows(data, mapId, today) ==
    {CreateNode(data[k], mapId, today) :
        k \in {i \in 1..Len(data) :
                  /\ Admitted(data[i], PresentAfter({}, data, i - 1))
                  /\ data[i].id \notin PresentAfter({}, data, i - 1)}}

\* C4 as stated: after a completed updateMap the map holds exactly the
\* submitted nodes that pass the parent check, and none of its earlier nodes.
C4_ExactlyPassing ==
    [][(last'.op = "updateMap" /\ last'.ok) =>
         NodesOf(nodes', last'.mapId) = PassingRows(last'.arg, last'.mapId, now)]_vars

\* C4 amended: after a completed updateMap the map holds exactly the submitted
\* nodes that pass the parent check and are the first admitted node of their
\* id in the submission; none of its earlier nodes remains.
C4_Replaces ==
    [][(last'.op = "updateMap" /\ last'.ok) =>
         NodesOf(nodes', last'.mapId)
             = FirstPassingRows(last'.arg, last'.mapId, now)]_vars

\* updateMap deleted two stored nodes and left the one node it admitted first.
C4_Witness ==
    /\ last.op = "updateMap" /\ last.ok /\ last.num = 2
    /\ last.arg = <<DetachedNode("a"), RootNode("a")>>
    /\ NodesOf(nodes, last.mapId) = {CreateNode(DetachedNode("a"), last.mapId, now)}

\* The batch as C5 has it: a node that is detached with a parent is dropped
\* like a node whose parent is missing, and the nodes after it are processed.
Valid(n, present) == ~IsDetachedWithParent(n) /\ Admitted(n, present)

RECURSIVE ValidAfter(_, _, _)
ValidAfter(ids, batch, k) ==
    IF k = 0
    THEN ids
    ELSE LET present == ValidAfter(ids, batch, k - 1) IN
         IF Valid(batch[k], present) THEN present \cup {batch[k].id} ELSE present

\* C5: addNodes on a stored map never fails; it drops the nodes that violate
\* the tree rules and inserts every other node of the batch.
C5_Absorbs ==
    [][(last'.op = "addNodes" /\ MapExists(maps, last'.mapId)) =>
         /\ last'.ok
         /\ IdsOf(nodes', last'.mapId)
               = ValidAfter(IdsOf(nodes, last'.mapId), last'.arg, Len(last'.arg))]_vars

Resolves(store, r) ==
    r.nodeParentId # Empty /\ FindNode(store, r.nodeMapId, r.nodeParentId) # {}

\* C6 as stated: every stored node is exactly one of root, detached, or attached
\* to a stored parent of its map, and no stored node is detached with a parent.
C6_TreeValid ==
    \A r \in nodes :
        /\ Cardinality({k \in {"root", "detached", "parent"} :
                \/ (k = "root" /\ r.root)
                \/ (k = "detached" /\ r.detached)
                \/ (k = "parent" /\ Resolves(nodes, r))}) = 1
        /\ ~IsDetachedWithParent(r)

\* C6 amended: validity is established at insertion only.  Every row created
\* by createEmptyMap, addNode, addNodes or updateMap is not detached with a
\* parent, and every row created by addNodes or updateMap is, when the call
\* returns, root or detached or attached to a stored parent of its map.
C6_ValidWhenInserted ==
    [][\A r \in nodes' \ nodes :
         /\ last'.op \in {"createEmptyMap", "addNode", "addNodes", "updateMap"} =>
               ~IsDetachedWithParent(r)
         /\ last'.op \in {"addNodes", "updateMap"} =>
               r.root \/ r.detached \/ Resolves(nodes', r)]_vars

\* updateMap has rebuilt a map as a root and its child.
C6_Witness ==
    /\ last.op = "updateMap" /\ last.ok
    /\ last.arg = <<RootNode("a"), ChildNode("b", "a")>>
    /\ NodesOf(nodes, last.mapId)
         = {CreateNode(RootNode("a"), last.mapId, now),
            CreateNode(ChildNode("b", "a"), last.mapId, now)}

\* The nodes the validator is probed with: the node shapes, and a node that is
\* neither root nor detached and declares no parent.
ProbeNodes == NodeArgs \cup {Node(i, Empty, FALSE, FALSE, 3) : i \in NodeIds}

ProbeMaps == MapIds \cup {Empty}

ParentStored(store, mapId, n) ==
    /\ n.nodeParentId # Empty
    /\ \E r \in store : r.id = n.nodeParentId /\ r.nodeMapId = mapId

ValidatorIff ==
    \A mapId \in ProbeMaps, n \in ProbeNodes :
        validatesNodeParentForNode(nodes, mapId, n)
            <=> (n.root \/ n.detached \/ ParentStored(nodes, mapId, n))

ExistsNodeFalseOnEmpty ==
    \A mapId \in ProbeMaps, id \in NodeIds \cup {Empty} :
        (mapId = Empty \/ id = Empty) => ~existsNode(nodes, mapId, id)

\* C7 as stated: the validator is true iff root, or detached, or the parent is
\* stored under the same map; it is false for every node when the mapId is
\* empty or the node's parent identifier is missing; existsNode is false when
\* an identifier is empty.
C7_FalseOnEmpty ==
    /\ ValidatorIff
    /\ \A mapId \in ProbeMaps, n \in ProbeNodes :
          (mapId = Empty \/ n.nodeParentId = Empty) =>
              ~validatesNodeParentForNode(nodes, mapId, n)
    /\ ExistsNodeFalseOnEmpty

\* C7 amended: the same, the second part for the nodes that are neither root
\* nor detached (a root or detached node validates whatever the mapId is).
C7_Validator ==
    /\ ValidatorIff
    /\ \A mapId \in ProbeMaps, n \in ProbeNodes :
          (~n.root /\ ~n.detached /\ (mapId = Empty \/ n.nodeParentId = Empty)) =>
              ~validatesNodeParentForNode(nodes, mapId, n)
    /\ ExistsNodeFalseOnEmpty

\* addNodes has accepted a child whose parent is stored under its map, while
\* the same child does not validate under the other stored map, which holds
\* no node of the parent's id.
C7_Witness ==
    /\ last.op = "addNodes" /\ last.ok /\ last.mapId = "m1"
    /\ last.arg = <<ChildNode("b", "a")>> /\ last.warned = <<>>
    /\ validatesNodeParentForNode(nodes, "m1", ChildNode("b", "a"))
    /\ MapExists(maps, "m2")
    /\ ~validatesNodeParentForNode(nodes, "m2", ChildNode("b", "a"))

\* The last activity of a map: the newest lastModified of its nodes, its own
\* lastModified when it has none.
EffectiveLast(store, m) ==
    LET owned == NodesOf(store, m.id) IN
    IF owned = {}
    THEN m.lastModified
    ELSE CHOOSE t \in {r.lastModified : r \in owned} :
             \A r \in owned : r.lastModified <= t

\* C8: deleteOutdatedMaps(afterDays) deletes exactly the maps whose last
\* activity plus afterDays days lies before the time of the call, keeps every
\* other map, and returns the number of maps it deleted.  (A step that leaves
\* the clock alone serves a request.)
C8_Sweep ==
    [][(last'.op = "deleteOutdatedMaps" /\ now' = now) =>
         LET outdated == {m \in maps : EffectiveLast(nodes, m) + last'.days < now}
         IN  /\ maps' = maps \ outdated
             /\ last'.num = Cardinality(outdated)]_vars

\* The sweep deleted one map and kept another, whose own lastModified is
\* outdated but whose newest node is not.
C8_Witness ==
    /\ last.op = "deleteOutdatedMaps" /\ last.num = 1
    /\ \E m \in maps :
          /\ m.lastModified + last.days < now
          /\ NodesOf(nodes, m.id) # {}
          /\ ~(EffectiveLast(nodes, m) + last.days < now)

\* C9: every stored node is owned by a stored map: no node of a deleted map
\* remains.
C9_Owned == \A r \in nodes : MapExists(maps, r.nodeMapId)

\* deleteMap deleted a map together with its node rows; the other map still
\* holds nodes.
C9_Witness ==
    /\ last.op = "deleteMap" /\ last.num >= 1
    /\ ~MapExists(maps, last.mapId)
    /\ nodes # {}

\* C10: getDeletedAt(map, afterDays) is L + afterDays, L the newest
\* lastModified of the map's nodes, and the map's own lastModified exactly
\* when the map has no nodes; it fails for a missing map.  exportMapToClient
\* reports the same value.
C10_Deadline ==
    /\ last.op = "getDeletedAt" =>
          /\ last.ok <=> last.mapId # Empty
          /\ last.ok =>
                \E m \in maps : /\ m.id = last.mapId
                                /\ last.num = EffectiveLast(nodes, m) + last.days
    /\ (last.op = "exportMapToClient" /\ last.ok) =>
          \E m \in maps : /\ m.id = last.mapId
                          /\ last.num = EffectiveLast(nodes, m) + last.days

\* getDeletedAt answered for a map with two nodes, both newer than the map and
\* one newer than the other.
C10_Witness ==
    /\ last.op = "getDeletedAt" /\ last.ok /\ last.days = 1
    /\ \E m \in maps, r1, r2 \in nodes :
          /\ m.id = last.mapId /\ r1.nodeMapId = m.id /\ r2.nodeMapId = m.id
          /\ m.lastModified < r1.lastModified /\ r1.lastModified < r2.lastModified
          /\ last.num = r2.lastModified + 1

\* C11: findMap of a string that is not a well-formed UUID fails with the
\* malformed-UUID error and makes no repository query; exportMapToClient fails
\* with the same error for such a string, and fails for a well-formed UUID
\* under which no map is stored; none of these requests changes a stored row.
C11_MalformedOrAbsent ==
    [][/\ (last'.op = "findMap" /\ last'.mapId \notin MapIds) =>
            /\ ~last'.ok /\ last'.err = MalformedUUIDError /\ last'.num = 0
            /\ last'.ret = <<>>
       /\ (last'.op = "exportMapToClient" /\ last'.mapId \notin MapIds) =>
            /\ ~last'.ok /\ last'.err = MalformedUUIDError /\ last'.num = 0
       /\ (last'.op = "exportMapToClient" /\ last'.mapId \in MapIds
             /\ ~MapExists(maps, last'.mapId)) =>
            ~last'.ok
       /\ last'.op \in {"findMap", "exportMapToClient"} =>
            (maps' = maps /\ nodes' = nodes)]_vars

\* exportMapToClient was refused for a malformed string while maps and nodes
\* are stored.
C11_Witness ==
    /\ last.op = "exportMapToClient" /\ ~last.ok
    /\ last.mapId = Malformed /\ last.err = MalformedUUIDError
    /\ maps # {} /\ nodes # {}

\* C12: updateNode(mapId, patch) fails and changes no row when no node with the
\* patch's id is stored under mapId.  Otherwise it replaces that row, and only
\* that row, by one with the same id and map, the patch's fields and
\* lastModified set to the time of the call, which is not earlier than the
\* lastModified the row had.
C12_UpdateNode ==
    [][(last'.op = "updateNode" /\ now' = now) =>
         LET mapId == last'.mapId
             patch == last'.arg[1]
             old == FindNode(nodes, mapId, patch.id)
             saved == CreateNode(patch, mapId, now)
         IN  IF old = {}
             THEN ~last'.ok /\ nodes' = nodes /\ maps' = maps
             ELSE /\ last'.ok
                  /\ last'.ret = <<saved>>
                  /\ nodes' = (nodes \ old) \cup {saved}
                  /\ FindNode(nodes', mapId, patch.id) = {saved}
                  /\ \A r \in old : r.lastModified <= saved.lastModified
                  /\ maps' = maps]_vars

\* updateNode has turned a stored child into a detached node and moved its
\* lastModified forward.
C12_Witness ==
    /\ last.op = "updateNode" /\ last.ok
    /\ last.prev # <<>>
    /\ Fields(last.prev[1]) = ChildNode("b", "a")
    /\ last.arg[1] = DetachedNode("b")
    /\ last.prev[1].lastModified < last.ret[1].lastModified
    /\ last.ret[1] \in nodes /\ last.prev[1] \notin nodes

\* C13: removeNode(node, mapId) returns nothing and changes no row when no node
\* with the node's id is stored under mapId; otherwise it deletes that row and
\* no other, returns it, and the id is no longer found under the map.
C13_RemoveNode ==
    [][last'.op = "removeNode" =>
         LET mapId == last'.mapId
             id == last'.arg[1].id
             old == FindNode(nodes, mapId, id)
         IN  /\ last'.ok
             /\ maps' = maps
             /\ IF old = {}
                THEN last'.ret = <<>> /\ nodes' = nodes
                ELSE /\ old = {last'.ret[1]}
                     /\ nodes' = nodes \ old
                     /\ FindNode(nodes', mapId, id) = {}]_vars

\* removeNode has deleted and returned the root a; its child b is still stored.
C13_Witness ==
    /\ last.op = "removeNode" /\ last.ret # <<>>
    /\ last.ret[1].id = "a" /\ last.ret[1].root
    /\ FindNode(nodes, last.mapId, "a") = {}
    /\ \E r \in NodesOf(nodes, last.mapId) : r.id = "b" /\ r.nodeParentId = "a"

\* C14: the sequence addNodes returns holds exactly the rows this call
\* inserted, each once, in the order of the batch; a node that was skipped
\* and a node whose id was stored at its turn are not in it.
C14_OnlyInserted ==
    [][(last'.op = "addNodes" /\ last'.ok) =>
         LET ret == last'.ret
             batch == last'.arg
             inserted == nodes' \ nodes
         IN  /\ \A i \in 1..Len(ret) : ret[i] \in inserted
             /\ \A r \in inserted : Cardinality({i \in 1..Len(ret) : ret[i] = r}) = 1
             /\ \A i, j \in 1..Len(ret) :
                   i < j => \E k, l \in 1..Len(batch) :
                               /\ k < l
                               /\ batch[k].id = ret[i].id
                               /\ batch[l].id = ret[j].id]_vars

\* ------------------------------------------------------ interleaved calls
\* An updateMap call between its delete and the end of its inserts.
InRebuild(c) == calls[c].pc \in {"validate", "lookup", "save"}

OthersIdle(cs) == \A c \in CallIds \ cs : calls[c].pc = "idle"

\* A step that serves findNodes (no call moves).
ReadsNodes == last'.op = "findNodes" /\ calls' = calls /\ last' # last

RowsRead == {last'.ret[k] : k \in 1..Len(last'.ret)}

\* C15: the rebuild of updateMap is not atomic.  A findNodes that is served
\* while one updateMap is between its delete and its last insert, and no other
\* call runs, returns the rows that call has inserted so far: the rows of the
\* accepted nodes of a prefix of the replacement, the empty list before the
\* first insert; it returns neither the rows the map held before the call
\* nor, before the last insert, the rows it holds after it.
C15_ReadsDuringRebuild ==
    [][\A u \in UpdateMapCalls :
         (ReadsNodes /\ InRebuild(u) /\ OthersIdle({u})) =>
            LET data == calls[u].data IN
            /\ RowsRead = NodesOf(nodes, ConcMap)
            /\ \E k \in 0..(calls[u].i - 1) :
                  RowsRead = FirstPassingRows(SubSeq(data, 1, k), ConcMap, now)
            /\ calls[u].pc = "save" =>
                  RowsRead # FirstPassingRows(data, ConcMap, now)]_vars

\* findNodes has returned the empty list while an updateMap with a replacement
\* that is accepted had deleted the rows of a map that held some, and had
\* not inserted yet.
C15_Witness ==
    /\ last.op = "findNodes" /\ last.ret = <<>>
    /\ \E u \in UpdateMapCalls :
          /\ InRebuild(u) /\ OthersIdle({u})
          /\ calls[u].old # {}
          /\ FirstPassingRows(calls[u].data, ConcMap, now) # {}
          /\ calls[u].old # FirstPassingRows(calls[u].data, ConcMap, now)
          /\ MapExists(maps, ConcMap)

BothUpdated ==
    /\ \A u \in UpdateMapCalls : calls[u].pc = "done"
    /\ OthersIdle(UpdateMapCalls)

SubmittedRows(c) ==
    {CreateNode(calls[c].data[k], ConcMap, now) : k \in 1..Len(calls[c].data)}

C17_NeverCreates ==
    [][(calls["n"].pc = "save" /\ calls'["n"].pc = "done") =>
         IdsOf(nodes', ConcMap) \subseteq IdsOf(nodes, ConcMap)]_vars

Writes == {"addNode", "addNodes", "updateNode", "removeNode", "updateMap"}

\* C18: a node request for map M changes no row of another map; findNodes(M)
\* returns the rows of M, each once and no other, in ascending orderNumber; a
\* node that is neither root nor detached does not validate under M when its
\* parent id is stored under another map only, and addNodes and updateMap
\* skip it.
C18_Isolation ==
    [][/\ last'.op \in Writes =>
            \A m \in MapIds \ {last'.mapId} : NodesOf(nodes', m) = NodesOf(nodes, m)
       /\ last'.op = "findNodes" =>
            LET found == last'.ret IN
            /\ {found[i] : i \in 1..Len(found)} = NodesOf(nodes, last'.mapId)
            /\ Len(found) = Cardinality(NodesOf(nodes, last'.mapId))
            /\ \A i, j \in 1..Len(found) :
                  i < j => found[i].orderNumber <= found[j].orderNumber
            /\ nodes' = nodes
       /\ \A m \in MapIds, n \in IsoNodes :
            (~n.root /\ ~n.detached /\ n.nodeParentId \notin IdsOf(nodes, m)) =>
                ~validatesNodeParentForNode(nodes, m, n)
       /\ last'.op \in {"addNodes", "updateMap"} =>
            \A r \in nodes' \ nodes :
                r.root \/ r.detached \/ r.nodeParentId \in IdsOf(nodes', r.nodeMapId)]_vars

\* addNodes for m1 has skipped a child whose parent id is stored under m2 only.
C18_Witness ==
    /\ last.op = "addNodes" /\ last.ok /\ last.mapId = "m1"
    /\ last.arg = <<ChildNode("b", "a")>> /\ last.warned = <<"b">>
    /\ MapExists(maps, "m1")
    /\ "a" \in IdsOf(nodes, "m2") /\ "a" \notin IdsOf(nodes, "m1")
    /\ "b" \notin IdsOf(nodes, "m1")

====
